---- MODULE Spec2Model ----
(***************************************************************************)
(* Asynchronous job orchestration of the ComfyUI MCP server: the Job       *)
(* Manager (job/index.ts), the ComfyUI stream client (comfyui/ws.ts), its  *)
(* job-tracking subclass (comfyui/ws-enhanced.ts), the background task     *)
(* executeJobAsync (comfyui/index.ts) and the REST submit / cancel         *)
(* handlers (api/routes.ts); and, as pure functions applied to inputs      *)
(* drawn from bounded sets, the job store's listing and cleanup            *)
(* (job/storage.ts) and the end-node resolver (comfyui/index.ts).          *)
(*                                                                         *)
(* The host runtime is single threaded: one action is one macrotask (an    *)
(* HTTP handler, a WebSocket event listener, a timer tick, the completion  *)
(* of an I/O call) together with every promise continuation it makes       *)
(* runnable, up to the next suspension on real I/O.                        *)
(***************************************************************************)
EXTENDS Integers, Sequences, FiniteSets, TLC

\* ---------------------------------------------------------------- bounds
MaxJobs == 2
\* inbound stream messages over all jobs
MaxMsgs == 2
\* length of a run: requests, transport and timer events, I/O completions
MaxSteps == 5
\* the watchdog's timeout counted in timer ticks (timeout / tick period)
TimeoutTicks == 2
\* the clock runs over 0..MaxTime
MaxTime == 2
\* jobs.maxJobAge in clock units
MaxJobAge == 1
\* nodes of a workflow graph handed to the end-node resolver
MaxNodes == 3
\* jobs of a store handed to list / cleanupOldJobs
MaxStore == 3
\* calls a caller makes on one stream client (open, on, close)
MaxCalls == 4
\* a caller's retry.maxRetries ranges over 0..MaxRetryConfig
MaxRetryConfig == 2

Ids == 1..MaxJobs

VARIABLES
  jobs,        \* JobStorage: job id -> job record (the ids present are its domain)
  nextId,      \* number of job ids handed out so far (randomUUID never repeats)
  pc,          \* position of each job's background task
  client,      \* the stream client object of each job
  gen,         \* state of the prompt-submission call of each job
  received,    \* number of inbound stream messages handed to each client
  delivered,   \* listener invocations of each client, in order
  reported,    \* the images the executed events handed to each open client named
  response,    \* the submit response of each job, once sent
  s3Enabled,   \* configuration: blob-store relay enabled
  host,        \* configuration: host[:port] parsed from the engine's address
  now,         \* the clock (Date.now()) at the last step that read it
  last,        \* the inbound message or the submit request the last step handled
  steps,       \* number of steps taken so far
  arg,         \* the input of a pure function under test
  ret          \* what it returned, <<>> before the call

vars == <<jobs, nextId, pc, client, gen, received, delivered, reported, response,
          s3Enabled, host, now, last, steps, arg, ret>>

\* ------------------------------------------------------------- job model
PENDING == "pending"
RUNNING == "running"
COMPLETED == "completed"
FAILED == "failed"
TIMEOUT == "timeout"
CANCELLED == "cancelled"

JobStatus == {PENDING, RUNNING, COMPLETED, FAILED, TIMEOUT, CANCELLED}
Terminal == {COMPLETED, FAILED, TIMEOUT, CANCELLED}

\* Object.assign(job, updates): the fields of updates overwrite those of job
Merge(job, updates) ==
  [f \in DOMAIN job |-> IF f \in DOMAIN updates THEN updates[f] ELSE job[f]]

\* optional fields are sequences of length 0 (absent) or 1 (present)
CreateJob(store, id, service, workflow, createdAt) ==
  store @@ (id :> [jobId |-> id, service |-> service, createdAt |-> createdAt,
                   status |-> PENDING,
                   clientId |-> id, workflow |-> workflow,
                   startedAt |-> <<>>, completedAt |-> <<>>,
                   progress |-> <<>>, result |-> <<>>, error |-> <<>>])

\* updateJobStatus creating the record when the id is unknown
UpdateJobStatusUpsert(store, id, status, updates) ==
  IF id \notin DOMAIN store
  THEN store @@ (id :> Merge([jobId |-> id, service |-> "", createdAt |-> 0,
                              status |-> status, clientId |-> id,
                              workflow |-> << >>, startedAt |-> << >>,
                              completedAt |-> << >>, progress |-> << >>,
                              result |-> << >>, error |-> << >>], updates))
  ELSE [store EXCEPT ![id] = Merge([@ EXCEPT !.status = status], updates)]

UpdateJobStatus(store, id, status, updates) ==
  IF id \notin DOMAIN store THEN store
  ELSE [store EXCEPT ![id] = Merge([@ EXCEPT !.status = status], updates)]

UpdateJobProgress(store, id, progress) ==
  IF id \notin DOMAIN store THEN store
  ELSE [store EXCEPT ![id].progress = <<progress>>]

SetJobResult(store, id, result) ==
  IF id \notin DOMAIN store THEN store
  ELSE [store EXCEPT ![id].result = <<result>>]

\* a record as createJob builds it, for an id the store does not hold
Blank(id) == CreateJob(<< >>, id, "", << >>, 0)[id]

\* setJobError creating the record when the id is unknown
SetJobErrorUpsert(store, id, error) ==
  IF id \notin DOMAIN store
  THEN store @@ (id :> [Blank(id) EXCEPT !.error = <<error>>])
  ELSE [store EXCEPT ![id].error = <<error>>]

SetJobError(store, id, error) ==
  IF id \notin DOMAIN store THEN store
  ELSE [store EXCEPT ![id].error = <<error>>]

\* ------------------------------------------------------------ job storage
Min(a, b) == IF a < b THEN a ELSE b
Max(a, b) == IF a > b THEN a ELSE b

\* the keys of the store's Map in iteration order, which is insertion order:
\* job ids are handed out in increasing order and a key is inserted once
RECURSIVE Keys(_)
Keys(store) ==
  IF DOMAIN store = {} THEN <<>>
  ELSE LET id == CHOOSE x \in DOMAIN store : \A y \in DOMAIN store : x <= y
       IN <<id>> \o Keys([k \in DOMAIN store \ {id} |-> store[k]])

\* Map.delete
Delete(store, id) == [k \in DOMAIN store \ {id} |-> store[k]]

\* a sweep that also deletes the jobs created exactly at the cutoff
RECURSIVE CleanupLoopInclusive(_, _, _, _)
CleanupLoopInclusive(store, keys, cutoff, count) ==
  IF keys = <<>> THEN [store |-> store, count |-> count]
  ELSE IF store[Head(keys)].createdAt <= cutoff
       THEN CleanupLoopInclusive(Delete(store, Head(keys)), Tail(keys), cutoff, count + 1)
       ELSE CleanupLoopInclusive(store, Tail(keys), cutoff, count)

\* the loop of JobStorage.cleanupOldJobs over the entries still to visit
RECURSIVE CleanupLoop(_, _, _, _)
CleanupLoop(store, keys, cutoff, count) ==
  IF keys = <<>> THEN [store |-> store, count |-> count]
  ELSE IF store[Head(keys)].createdAt < cutoff
       THEN CleanupLoop(Delete(store, Head(keys)), Tail(keys), cutoff, count + 1)
       ELSE CleanupLoop(store, Tail(keys), cutoff, count)

\* JobStorage.cleanupOldJobs / JobManager.cleanupOldJobs: the store afterwards
\* and the number returned
CleanupOldJobs(store, cutoff) == CleanupLoop(store, Keys(store), cutoff, 0)

\* Array.prototype.slice(start) and slice(0, end)
SliceFrom(seq, start) ==
  LET n == Len(seq)
      from == IF start < 0 THEN Max(n + start, 0) ELSE Min(start, n)
  IN SubSeq(seq, from + 1, n)

SliceTo(seq, end) ==
  LET n == Len(seq)
      to == IF end < 0 THEN Max(n + end, 0) ELSE Min(end, n)
  IN SubSeq(seq, 1, to)

\* Array.prototype.sort with (a, b) => b.createdAt - a.createdAt: a stable
\* sort, newest first; InsertSorted puts x behind every job not older than it
RECURSIVE InsertSorted(_, _)
InsertSorted(sorted, x) ==
  IF sorted = <<>> THEN <<x>>
  ELSE IF Head(sorted).createdAt - x.createdAt >= 0
       THEN <<Head(sorted)>> \o InsertSorted(Tail(sorted), x)
       ELSE <<x>> \o sorted

RECURSIVE SortNewestFirst(_)
SortNewestFirst(seq) ==
  IF seq = <<>> THEN <<>>
  ELSE InsertSorted(SortNewestFirst(SubSeq(seq, 1, Len(seq) - 1)), seq[Len(seq)])

\* an optional filter field is <<>> (absent) or <<value>>; a field is applied
\* when it is truthy: a non-empty string, a number other than 0
TruthyString(field) == field # <<>> /\ field[1] # ""
TruthyNumber(field) == field # <<>> /\ field[1] # 0

NoFilters == [service |-> <<>>, status |-> <<>>, limit |-> <<>>, offset |-> <<>>]

\* JobStorage.list / JobManager.listJobs
List(store, filters) ==
  LET keys == Keys(store)
      all == [i \in 1..Len(keys) |-> store[keys[i]]]
      byService == IF TruthyString(filters.service)
                   THEN SelectSeq(all, LAMBDA j : j.service = filters.service[1])
                   ELSE all
      byStatus == IF TruthyString(filters.status)
                  THEN SelectSeq(byService, LAMBDA j : j.status = filters.status[1])
                  ELSE byService
      sorted == SortNewestFirst(byStatus)
      dropped == IF TruthyNumber(filters.offset) THEN SliceFrom(sorted, filters.offset[1])
                 ELSE sorted
  IN IF TruthyNumber(filters.limit) THEN SliceTo(dropped, filters.limit[1]) ELSE dropped

StartedAt == [startedAt |-> <<"set">>]
CompletedAt == [completedAt |-> <<"set">>]

\* ------------------------------------------------------ workflows, config
WfText == << [id |-> "5", class_type |-> "PreviewImage"],
             [id |-> "9", class_type |-> "SaveImage"] >>
WfBlank == << >>

\* the services array of the configuration: text_to_image declares two
\* outputs, the last of them on the preview node
Services ==
  << [name |-> "text_to_image", comfyuiWorkflowApi |-> "text_to_image",
      parameters |-> << [name |-> "prompt", type |-> "string", required |-> TRUE],
                        [name |-> "steps", type |-> "number", required |-> FALSE] >>,
      outputs |-> << [name |-> "image", nodeId |-> "9"],
                     [name |-> "preview", nodeId |-> "5"] >>],
     [name |-> "blank", comfyuiWorkflowApi |-> "blank",
      parameters |-> << >>, outputs |-> << >>] >>

\* a lookup that falls back on the first service when none has the name
FindServiceOrFirst(name) ==
  LET hits == SelectSeq(Services, LAMBDA sv : sv.name = name)
  IN IF hits = <<>> THEN <<Head(Services)>> ELSE <<Head(hits)>>

\* services.find((s) => s.name === serviceName): <<service>> or <<>>
FindService(name) ==
  LET hits == SelectSeq(Services, LAMBDA sv : sv.name = name)
  IN IF hits = <<>> THEN <<>> ELSE <<Head(hits)>>

\* the workflow file of a service, nodes in the key order of the parsed object
LoadWorkflow(workflowName) ==
  IF workflowName = "text_to_image" THEN WfText ELSE WfBlank

\* ------------------------------------------------- parameter validation
\* a request value by its kind; "undefined" is a parameter the body lacks
Values == {"undefined", "null", "empty_string", "blank_string", "string",
           "number", "NaN", "boolean", "empty_array", "array",
           "empty_object", "object"}

TypeOf(value) ==
  CASE value = "undefined" -> "undefined"
    [] value \in {"empty_string", "blank_string", "string"} -> "string"
    [] value \in {"number", "NaN"} -> "number"
    [] value = "boolean" -> "boolean"
    [] OTHER -> "object"

IsArray(value) == value \in {"empty_array", "array"}

\* an emptiness test that does not trim strings
IsEmptyValueNoTrim(value) ==
  value \in {"null", "undefined", "empty_string", "empty_array", "empty_object"}

IsEmptyValue(value) ==
  \/ value = "null" \/ value = "undefined"
  \/ (TypeOf(value) = "string" /\ value \in {"empty_string", "blank_string"})
  \/ (IsArray(value) /\ value = "empty_array")
  \/ (TypeOf(value) = "object" /\ value = "empty_object")

\* the type check of one non-empty value: TRUE when it pushes an error
TypeError(type, value) ==
  CASE type = "string" -> TypeOf(value) # "string"
    [] type = "number" -> TypeOf(value) # "number" \/ value = "NaN"
    [] type = "boolean" -> TypeOf(value) # "boolean"
    [] type = "array" -> ~IsArray(value)
    [] type = "object" -> TypeOf(value) # "object" \/ IsArray(value) \/ value = "null"
    [] OTHER -> FALSE

\* validateParameters: the errors pushed, in the order of service.parameters
RECURSIVE ValidateLoop(_, _, _)
ValidateLoop(params, body, errors) ==
  IF params = <<>> THEN errors
  ELSE LET param == Head(params)
           value == body[param.name]
       IN IF param.required /\ IsEmptyValue(value)
          THEN ValidateLoop(Tail(params), body,
                            Append(errors, [parameter |-> param.name,
                                            message |-> "missing or empty"]))
          ELSE IF ~IsEmptyValue(value) /\ TypeError(param.type, value)
          THEN ValidateLoop(Tail(params), body,
                            Append(errors, [parameter |-> param.name,
                                            message |-> "type"]))
          ELSE ValidateLoop(Tail(params), body, errors)

ValidateParameters(service, body) == ValidateLoop(service.parameters, body, <<>>)

\* the zod schema of a service tool (convertParameterType): does it let the
\* arguments through to the execute callback
SchemaAccepts(service, body) ==
  \A i \in 1..Len(service.parameters) :
    LET param == service.parameters[i]
        value == body[param.name]
    IN \/ ~param.required /\ value = "undefined"
       \/ /\ TypeOf(value) = param.type \/ (param.type = "array" /\ IsArray(value))
          /\ value \notin {"NaN", "null"}
          /\ param.type = "object" => ~IsArray(value)

\* the request bodies and the submit requests tried
Body(promptValue, stepsValue) == [prompt |-> promptValue, steps |-> stepsValue]

Requests ==
  { [name |-> "text_to_image", body |-> Body("string", "undefined")],
    [name |-> "blank", body |-> Body("undefined", "undefined")],
    [name |-> "text_to_image", body |-> Body("undefined", "number")],
    [name |-> "text_to_image", body |-> Body("blank_string", "undefined")],
    [name |-> "text_to_image", body |-> Body("string", "string")],
    [name |-> "no_such_service", body |-> Body("string", "undefined")] }

SetMin(S) == CHOOSE x \in S : \A y \in S : x <= y

SetMax(S) == CHOOSE x \in S : \A y \in S : x >= y

\* a resolver that keeps the last SaveImage node it meets
FindSaveImageNodeLastMatch(workflow) ==
  LET saves == {i \in 1..Len(workflow) : workflow[i].class_type = "SaveImage"}
  IN IF saves # {} THEN <<workflow[SetMax(saves)].id>>
     ELSE IF Len(workflow) > 0 THEN <<workflow[Len(workflow)].id>>
     ELSE <<>>

\* a resolver that falls back on the first node
FindSaveImageNodeFirstKey(workflow) ==
  LET saves == {i \in 1..Len(workflow) : workflow[i].class_type = "SaveImage"}
  IN IF saves # {} THEN <<workflow[SetMin(saves)].id>>
     ELSE IF Len(workflow) > 0 THEN <<workflow[1].id>>
     ELSE <<>>

\* <<node id>>, or <<>> when the function throws (no nodes)
FindSaveImageNode(workflow) ==
  LET saves == {i \in 1..Len(workflow) : workflow[i].class_type = "SaveImage"}
  IN IF saves # {} THEN <<workflow[SetMin(saves)].id>>
     ELSE IF Len(workflow) > 0 THEN <<workflow[Len(workflow)].id>>
     ELSE <<>>

\* ---------------------------------------------------- inbound stream data
Observer == "observer"
Enhanced == "enhanced"

\* images of an executed payload: "absent" = the output carries no images
\* list, "one" / "two" = a list of that many images
Msg(type, hasData, node, images) ==
  [type |-> type, hasData |-> hasData, node |-> node, images |-> images]

Msgs == { Msg("progress", TRUE, "5", "absent"),
          Msg("execution_cached", TRUE, "5", "absent"),
          Msg("executing", TRUE, "5", "absent"),
          Msg("executed", TRUE, "5", "one"),
          Msg("executed", TRUE, "9", "two"),
          Msg("executed", TRUE, "9", "absent"),
          Msg("error", TRUE, "undefined", "absent"),
          Msg("execution_error", TRUE, "5", "absent") }

\* length of the images list of an executed payload
ImageCount(images) == IF images = "two" THEN 2 ELSE IF images = "one" THEN 1 ELSE 0

\* the i-th image a node reported
Image(node, i) == [node |-> node, index |-> i]

\* the images an inbound message reports: those of an executed event's output
Reported(m) ==
  IF m.type = "executed" /\ m.hasData
  THEN { Image(m.node, i) : i \in 1..ImageCount(m.images) } ELSE {}

\* kinds an outside caller registers a listener for through on()
ObserverKinds == {"executed"}

\* ---------------------------------------------------------- stream client
\* websocket: the client holds a WebSocket object; readyState: that object's
\* state ("NONE" before it is created); events: the listeners of the client's
\* EventTarget, <<event type, handler>> in registration order; end: params.end;
\* promise, error, payload: the promise of open() and what it settled with.
\* closeCalls and sockCloses only count the calls of close() on the client and
\* on its WebSocket object.
NewClient ==
  [isClosed |-> FALSE, websocket |-> FALSE, readyState |-> "NONE",
   sockErrored |-> FALSE, timer |-> FALSE, elapsed |-> 0, events |-> <<>>,
   promise |-> "none", error |-> "", payload |-> <<>>, end |-> "",
   closeCalls |-> 0, sockCloses |-> 0]

Resolve(c, data) ==
  IF c.promise = "pending"
  THEN [c EXCEPT !.promise = "resolved", !.payload = <<data>>] ELSE c

Reject(c, code) ==
  IF c.promise = "pending"
  THEN [c EXCEPT !.promise = "rejected", !.error = code] ELSE c

Settled(c) == c.promise \in {"resolved", "rejected"}

\* does close() call close() on the WebSocket object
ClosesSocket(c) == c.websocket /\ c.readyState \in {"OPEN", "CONNECTING"}

\* close() that keeps the listeners of the EventTarget
CloseKeepingListeners(c) ==
  [c EXCEPT !.isClosed = TRUE, !.timer = FALSE, !.websocket = FALSE,
            !.readyState = IF ClosesSocket(c) THEN "CLOSING" ELSE @,
            !.closeCalls = @ + 1,
            !.sockCloses = IF ClosesSocket(c) THEN @ + 1 ELSE @]

Close(c) ==
  [c EXCEPT !.isClosed = TRUE, !.timer = FALSE, !.events = <<>>,
            !.websocket = FALSE,
            !.readyState = IF ClosesSocket(c) THEN "CLOSING" ELSE @,
            !.closeCalls = @ + 1,
            !.sockCloses = IF ClosesSocket(c) THEN @ + 1 ELSE @]

\* on(event, handler)
AddListener(c, type, handler) ==
  [c EXCEPT !.events = Append(@, <<type, handler>>)]

\* setupEventHandlers of the job-tracking client
SetupEventHandlers(c) ==
  AddListener(AddListener(AddListener(c, "progress", Enhanced),
                          "execution_cached", Enhanced), "executing", Enhanced)

\* HandleMessage resolving on any executed event, whatever the end node
HandleMessageAnyNode(c, m) ==
  LET keep == [client |-> c, dispatch |-> <<>>]
  IN IF c.isClosed THEN keep
     ELSE IF m.type = "executing" THEN [keep EXCEPT !.dispatch = <<m>>]
     ELSE IF m.type = "executed" THEN
       [client |-> Resolve(Close(c), m), dispatch |-> <<>>]
     ELSE IF m.type = "error" THEN
       [client |-> Reject(Close(c), "EXECUTION_ERROR"), dispatch |-> <<>>]
     ELSE keep

\* HandleMessage resolving on the end node's event without calling close()
HandleMessageNoClose(c, m) ==
  LET keep == [client |-> c, dispatch |-> <<>>]
  IN IF c.isClosed THEN keep
     ELSE IF m.type = "executing" THEN [keep EXCEPT !.dispatch = <<m>>]
     ELSE IF m.type = "executed" THEN
       IF c.end # "" /\ m.node # c.end
       THEN [keep EXCEPT !.dispatch = <<m>>]
       ELSE [client |-> Resolve(c, m), dispatch |-> <<>>]
     ELSE IF m.type = "error" THEN
       [client |-> Reject(Close(c), "EXECUTION_ERROR"), dispatch |-> <<>>]
     ELSE keep

\* the 'message' listener of open(): the client after the message and the
\* event it dispatches on its EventTarget (if any)
HandleMessage(c, m) ==
  LET keep == [client |-> c, dispatch |-> <<>>]
      currentNode == IF m.hasData THEN m.node ELSE "undefined"
  IN IF c.isClosed THEN keep
     ELSE IF m.type = "" THEN keep
     ELSE IF m.type = "executing" THEN [keep EXCEPT !.dispatch = <<m>>]
     ELSE IF m.type = "executed" THEN
       IF c.end # "" /\ currentNode # c.end
       THEN [keep EXCEPT !.dispatch = <<m>>]
       ELSE [client |-> IF m.hasData
                        THEN Resolve(Close(c), m)
                        ELSE Reject(Close(c), "INVALID_EXECUTED_DATA"),
             dispatch |-> <<>>]
     ELSE IF m.type = "error" THEN
       [client |-> Reject(Close(c), "EXECUTION_ERROR"), dispatch |-> <<>>]
     ELSE keep

\* the listeners dispatchEvent invokes for an event, as <<handler, message>>
Invoked(c, d) ==
  IF d = <<>> THEN <<>>
  ELSE LET hs == SelectSeq(c.events, LAMBDA h : h[1] = d[1].type)
       IN [i \in 1..Len(hs) |-> [handler |-> hs[i][2], type |-> d[1].type,
                                  node |-> d[1].node]]

\* handleProgressEvent: the handler receives the event whose data field is the
\* whole parsed message, so value, max and node read from it are undefined
HandleProgressEvent(store, id) ==
  UpdateJobProgress(store, id, [current |-> "undefined", maximum |-> "undefined",
                                node |-> "undefined"])

\* the store after the job-tracking handlers among the invoked listeners ran
\* (handleExecutionCachedEvent and handleExecutingEvent find no nodes / node
\* field on their event and change nothing)
HandlerEffects(store, id, inv) ==
  IF \E i \in 1..Len(inv) : inv[i].handler = Enhanced /\ inv[i].type = "progress"
  THEN HandleProgressEvent(store, id) ELSE store

\* the 'open' listener of open(): starts the watchdog; the prompt submission
\* (executeGen) is started by the action
HandleOpen(c) ==
  IF c.isClosed THEN c ELSE [c EXCEPT !.timer = TRUE, !.elapsed = 0]

\* a watchdog that closes on expiry but never rejects
HandleTickNoReject(c) ==
  IF c.isClosed THEN [c EXCEPT !.timer = FALSE]
  ELSE IF c.elapsed + 1 >= TimeoutTicks
       THEN Close([c EXCEPT !.elapsed = @ + 1])
       ELSE [c EXCEPT !.elapsed = @ + 1]

\* one tick of the watchdog interval
HandleTick(c) ==
  IF c.isClosed THEN [c EXCEPT !.timer = FALSE]
  ELSE IF c.elapsed + 1 >= TimeoutTicks
       THEN Reject(Close([c EXCEPT !.elapsed = @ + 1]), "TIMEOUT")
       ELSE [c EXCEPT !.elapsed = @ + 1]

\* the 'error' listener of open()
HandleSocketError(c) == Reject(Close(c), "WEBSOCKET_ERROR")

\* the 'close' listener of open()
HandleSocketClose(c) ==
  IF ~c.isClosed THEN Reject(Close(c), "UNEXPECTED_CLOSE") ELSE c

\* an 'open' listener that starts executeGen without .catch(reject)
HandleGenDoneUncaught(c, outcome) == c

\* executeGen(...).catch(reject): outcome "ok" or the code of the error thrown
HandleGenDone(c, outcome) == IF outcome = "ok" THEN c ELSE Reject(c, outcome)

GenOutcomes == {"ok", "API_ERROR", "INVALID_RESPONSE", "API_CALL_FAILED"}

\* ------------------------------------------------------- background task
JobError(code) == [code |-> code]

\* the response axiosInstance.get resolves with for a downloaded image
AxiosResponse == [status |-> 200, data |-> [type |-> "Buffer"]]

\* get of http-client.ts (the default export's get): the body of the response
Get(res) == res.data

\* object[key] of a value read from the network: <<>> when undefined
Property(object, key) == IF key \in DOMAIN object THEN << object[key] >> ELSE << >>

\* the try block of processOutputImages for one image whose download and
\* upload do not fail: <<the blob-store URL>>, or <<>> when the block threw
\* (Buffer.from(undefined) throws a TypeError)
Relay ==
  LET downloaded == Get(AxiosResponse)
      data == Property(downloaded, "data")
  IN IF data = << >> THEN << >> ELSE << "s3" >>

\* processOutputImages: every image of the list gets its direct URL, and the
\* blob-store URL its try block produced when the relay is enabled (failed:
\* the indices of the images whose download or upload threw)
ProcessOutputImages(data, s3, failed) ==
  [i \in 1..ImageCount(data.images) |->
     [filename |-> Image(data.node, i), url |-> "view",
      s3Url |-> IF s3 /\ i \notin failed THEN Relay ELSE <<>>]]

\* the JobResult built by executeWithJobTracking and completed by
\* executeJobAsync; outputs: the result's optional outputs list (<<>>: the
\* field is absent), which neither of them assigns
JobResult(data, s3, failed) ==
  [node |-> data.node, images |-> ProcessOutputImages(data, s3, failed),
   outputs |-> << >>]

\* a catch block that records the error and leaves the status alone
CatchErrorNoStatus(store, id, code) == SetJobError(store, id, JobError(code))

\* a catch block that records the error and puts the job back in the queue
CatchErrorRequeue(store, id, code) ==
  UpdateJobStatus(SetJobError(store, id, JobError(code)), id, PENDING, CompletedAt)

\* a catch block that flips the status and attaches no error
CatchErrorStatusOnly(store, id, code) ==
  UpdateJobStatus(store, id, FAILED, CompletedAt)

\* a catch block of the task: setJobError, then updateJobStatus(failed)
CatchError(store, id, code) ==
  UpdateJobStatus(SetJobError(store, id, JobError(code)), id, FAILED, CompletedAt)

\* catch blocks that take the job id from a variable all tasks share, which
\* holds the id of the job created last
FailTaskSharedJobId(store, c, id, code) ==
  LET shared == IF DOMAIN store = {} THEN id ELSE SetMax(DOMAIN store)
  IN [jobs |-> CatchError(CatchError(store, shared, code), shared, code),
      client |-> Close(c), pc |-> "done"]

\* the catch of executeWithJobTracking, which rethrows, then the catch and the
\* finally of executeJobAsync
FailTask(store, c, id, code) ==
  [jobs |-> CatchError(CatchError(store, id, code), id, code),
   client |-> Close(c), pc |-> "done"]

\* an end of the try block that stores the result and leaves a job cancelled
\* meanwhile CANCELLED
FinishTaskKeepCancelled(store, c, id, s3, failed) ==
  LET s1 == SetJobResult(store, id, JobResult(c.payload[1], s3, failed))
  IN [jobs |-> IF id \in DOMAIN store /\ store[id].status = CANCELLED THEN s1
               ELSE UpdateJobStatus(s1, id, COMPLETED, CompletedAt),
      client |-> Close(c), pc |-> "done"]

\* the end of executeJobAsync's try block, then its finally
FinishTask(store, c, id, s3, failed) ==
  [jobs |-> UpdateJobStatus(SetJobResult(store, id, JobResult(c.payload[1], s3, failed)),
                            id, COMPLETED, CompletedAt),
   client |-> Close(c), pc |-> "done"]

\* the task resumes after `await super.open(params)` settled, and runs to its
\* end or to the first download of processOutputImages
AfterOpen(store, c, id, s3) ==
  IF c.promise = "rejected" THEN FailTask(store, c, id, c.error)
  ELSE IF c.payload[1].images = "absent"
       THEN FailTask(store, c, id, "undefined")   \* TypeError: images.map
  ELSE IF s3 /\ ImageCount(c.payload[1].images) > 0
       THEN [jobs |-> store, client |-> c, pc |-> "processing"]
  ELSE FinishTask(store, c, id, s3, {})

\* a listener changed the client from c0 to c1: the task resumes when that
\* settled the promise it awaits
Resume(store, c0, c1, id, s3, at) ==
  IF c0.promise = "pending" /\ Settled(c1)
  THEN AfterOpen(store, c1, id, s3)
  ELSE [jobs |-> store, client |-> c1, pc |-> at]

\* an open() without the isClosed guard
OpenAfterClose(c, end) ==
  [c EXCEPT !.promise = "pending", !.websocket = TRUE,
            !.readyState = "CONNECTING", !.end = end]

\* open(params), params.prompt given: creates the WebSocket and returns the
\* promise; on a closed client the promise is rejected and nothing is created
Open(c, end) ==
  IF c.isClosed THEN [c EXCEPT !.promise = "rejected", !.error = "ALREADY_CLOSED"]
  ELSE [c EXCEPT !.promise = "pending", !.websocket = TRUE,
                 !.readyState = "CONNECTING", !.end = end]

\* executeJobAsync up to its first suspension
StartTask(store, id, h) ==
  IF id \notin DOMAIN store
  THEN [jobs |-> store, client |-> NewClient, pc |-> "threw"]  \* Job not found
  ELSE LET s1 == UpdateJobStatus(store, id, RUNNING, StartedAt)
           c0 == SetupEventHandlers(NewClient)
           end == FindSaveImageNode(store[id].workflow)
       IN IF h = ""        \* the constructor throws MISSING_HOST, before the try
          THEN [jobs |-> s1, client |-> NewClient, pc |-> "threw"]
          ELSE IF end = <<>>
          THEN [jobs |-> CatchError(s1, id, "undefined"), client |-> Close(c0),
                pc |-> "done"]
          ELSE [jobs |-> UpdateJobStatus(s1, id, RUNNING, StartedAt),
                client |-> Open(c0, end[1]), pc |-> "open"]

\* -------------------------------------------------------- HTTP handlers
\* a response reporting the status read from the job record
SubmitResponseFromRecord(store, id) ==
  [job_id |-> id, status |-> IF id \in DOMAIN store THEN store[id].status ELSE "pending"]

\* the response of a successful submit: the literal status 'pending'
SubmitResponse(store, id) == [job_id |-> id, status |-> "pending"]

\* DELETE /jobs/:job_id
CancelJob(store, id) ==
  IF id \notin DOMAIN store THEN store                      \* 404
  ELSE IF store[id].status \in {COMPLETED, FAILED} THEN store
  ELSE IF store[id].status = CANCELLED THEN store
  ELSE UpdateJobStatus(store, id, CANCELLED, CompletedAt)

\* the response of DELETE /jobs/:job_id (status "": the 404 body has none)
CancelResponse(store, id) ==
  IF id \notin DOMAIN store THEN [code |-> 404, status |-> ""]
  ELSE IF store[id].status \in {COMPLETED, FAILED}
       THEN [code |-> 200, status |-> store[id].status]
  ELSE [code |-> 200, status |-> CANCELLED]

\* ----------------------------------------------------------------- state
NoMsg == Msg("", FALSE, "undefined", "absent")

RECURSIVE Total(_, _)
Total(f, S) == IF S = {} THEN 0
               ELSE LET x == CHOOSE x \in S : TRUE IN f[x] + Total(f, S \ {x})
NoReq == [name |-> "", body |-> Body("undefined", "undefined")]
Got(id, msg) ==
  [id |-> id, msg |-> msg, req |-> NoReq, answer |-> "", failed |-> {}]
NoneGot == Got(0, NoMsg)
\* the last step handled submit request req, created job id (0: none) and
\* answered with answer ("": not yet)
Asked(id, req, answer) ==
  [id |-> id, msg |-> NoMsg, req |-> req, answer |-> answer, failed |-> {}]
\* the last step was the return of job id's prompt-submission call, with
\* outcome "ok" or the code of the error it threw
Returned(id, outcome) ==
  [id |-> id, msg |-> NoMsg, req |-> NoReq, answer |-> outcome, failed |-> {}]
\* the last step was the end of processOutputImages for job id; failed: the
\* indices of the images whose download or upload threw
Relayed(id, failed) ==
  [id |-> id, msg |-> NoMsg, req |-> NoReq, answer |-> "relayed", failed |-> failed]

\* the server after start-up: no job, no request handled yet
Idle ==
  /\ jobs = << >>
  /\ nextId = 0
  /\ pc = [j \in Ids |-> "none"]
  /\ client = [j \in Ids |-> NewClient]
  /\ gen = [j \in Ids |-> "none"]
  /\ received = [j \in Ids |-> 0]
  /\ delivered = [j \in Ids |-> << >>]
  /\ reported = [j \in Ids |-> {}]
  /\ response = [j \in Ids |-> << >>]
  /\ now = 0
  /\ last = NoneGot
  /\ steps = 0

\* parseComfyUIUrl: the host of the default address, and of an address such
\* as "localhost:8188", which parses as a URL of scheme localhost with no host
DefaultHost == "127.0.0.1:8188"
Hosts == {DefaultHost, ""}

Init ==
  /\ Idle
  /\ s3Enabled \in BOOLEAN
  /\ host \in Hosts
  /\ arg = << >>
  /\ ret = << >>

\* POST /services/:service_name up to `await import(...)`: the job is created.
\* Whether other requests are served before the import resolves is up to the
\* module loader; SubmitTool covers the case that none is.
SubmitRest(req) ==
  /\ steps < MaxSteps
  /\ steps' = steps + 1
  /\ LET service == FindService(req.name)
         id == nextId + 1
     IN IF service = <<>>
        THEN /\ last' = Asked(0, req, "404")
             /\ UNCHANGED <<jobs, nextId, pc>>
        ELSE IF ValidateParameters(service[1], req.body) # <<>>
        THEN /\ last' = Asked(0, req, "400")
             /\ UNCHANGED <<jobs, nextId, pc>>
        ELSE /\ nextId < MaxJobs
             /\ jobs' = CreateJob(jobs, id, req.name,
                                  LoadWorkflow(service[1].comfyuiWorkflowApi), now)
             /\ nextId' = id
             /\ pc' = [pc EXCEPT ![id] = "import"]
             /\ last' = Asked(id, req, "")
  /\ UNCHANGED <<client, gen, received, delivered, reported, response, s3Enabled, host, now, arg, ret>>

\* the rest of the REST handler: executeJobAsync is called, not awaited, and
\* the response is sent
StartExec(id) ==
  /\ steps < MaxSteps
  /\ steps' = steps + 1
  /\ pc[id] = "import"
  /\ LET t == StartTask(jobs, id, host) IN
     /\ jobs' = t.jobs
     /\ client' = [client EXCEPT ![id] = t.client]
     /\ pc' = [pc EXCEPT ![id] = t.pc]
     /\ response' = [response EXCEPT ![id] = <<SubmitResponse(t.jobs, id)>>]
  /\ last' = NoneGot
  /\ UNCHANGED <<nextId, gen, received, delivered, reported, s3Enabled, host, now, arg, ret>>

\* the execute callback of a service tool, called with arguments its schema
\* let through: validateParameters, createJob, executeJobAsync (not awaited)
\* and the response, in one go
SubmitTool(req) ==
  /\ steps < MaxSteps
  /\ steps' = steps + 1
  /\ FindService(req.name) # <<>>
  /\ LET service == FindService(req.name)[1]
         id == nextId + 1
         t == StartTask(CreateJob(jobs, id, req.name,
                                  LoadWorkflow(service.comfyuiWorkflowApi), now), id, host)
     IN /\ SchemaAccepts(service, req.body)
        /\ IF ValidateParameters(service, req.body) # <<>>
           THEN /\ last' = Asked(0, req, "throw")
                /\ UNCHANGED <<jobs, nextId, client, pc, response>>
           ELSE /\ nextId < MaxJobs
                /\ jobs' = t.jobs
                /\ nextId' = id
                /\ client' = [client EXCEPT ![id] = t.client]
                /\ pc' = [pc EXCEPT ![id] = t.pc]
                /\ response' = [response EXCEPT ![id] = <<SubmitResponse(t.jobs, id)>>]
                /\ last' = Asked(id, req, "pending")
  /\ UNCHANGED <<gen, received, delivered, reported, s3Enabled, host, now, arg, ret>>

Cancel(id) ==
  /\ steps < MaxSteps
  /\ steps' = steps + 1
  /\ id \in 1..nextId
  /\ jobs' = CancelJob(jobs, id)
  /\ last' = NoneGot
  /\ UNCHANGED <<nextId, pc, client, gen, received, delivered, reported, response, s3Enabled, host, now, arg, ret>>

\* the callback of the cleanup interval, run at time t
Cleanup(t) ==
  /\ steps < MaxSteps
  /\ steps' = steps + 1
  /\ t >= now
  /\ now' = t
  /\ jobs' = CleanupOldJobs(jobs, t - MaxJobAge).store
  /\ last' = NoneGot
  /\ UNCHANGED <<nextId, pc, client, gen, received, delivered, reported, response,
                 s3Enabled, host, arg, ret>>

\* a caller holding the client registers a listener through on()
On(id, type) ==
  /\ steps < MaxSteps
  /\ steps' = steps + 1
  /\ pc[id] = "open"
  /\ \A i \in 1..Len(client[id].events) : client[id].events[i] # <<type, Observer>>
  /\ client' = [client EXCEPT ![id] = AddListener(@, type, Observer)]
  /\ last' = NoneGot
  /\ UNCHANGED <<jobs, nextId, pc, gen, received, delivered, reported, response, s3Enabled, host, now, arg, ret>>

\* the effect of a listener of the WebSocket object or of the watchdog that
\* took job id's client from its current value to c1, with store the job
\* store after that listener
Listener(id, store, c1) ==
  LET r == Resume(store, client[id], c1, id, s3Enabled, pc[id]) IN
  /\ jobs' = r.jobs
  /\ client' = [client EXCEPT ![id] = r.client]
  /\ pc' = [pc EXCEPT ![id] = r.pc]

\* the connection is established: the 'open' listener starts the watchdog and
\* the prompt submission
WsOpen(id) ==
  /\ steps < MaxSteps
  /\ steps' = steps + 1
  /\ client[id].readyState = "CONNECTING"
  /\ LET c == [client[id] EXCEPT !.readyState = "OPEN"] IN
     /\ Listener(id, jobs, HandleOpen(c))
     /\ gen' = [gen EXCEPT ![id] = IF c.isClosed THEN @ ELSE "inflight"]
  /\ last' = NoneGot
  /\ UNCHANGED <<nextId, received, delivered, reported, response, s3Enabled, host, now, arg, ret>>

\* the prompt-submission call returns or throws
GenDone(id, outcome) ==
  /\ steps < MaxSteps
  /\ steps' = steps + 1
  /\ gen[id] = "inflight"
  /\ gen' = [gen EXCEPT ![id] = "done"]
  /\ Listener(id, jobs, HandleGenDone(client[id], outcome))
  /\ last' = Returned(id, outcome)
  /\ UNCHANGED <<nextId, received, delivered, reported, response, s3Enabled, host, now, arg, ret>>

Tick(id) ==
  /\ steps < MaxSteps
  /\ steps' = steps + 1
  /\ client[id].timer
  /\ Listener(id, jobs, HandleTick(client[id]))
  /\ last' = NoneGot
  /\ UNCHANGED <<nextId, gen, received, delivered, reported, response, s3Enabled, host, now, arg, ret>>

\* an inbound frame on the job's stream
WsMessage(id, m) ==
  /\ steps < MaxSteps
  /\ steps' = steps + 1
  /\ client[id].readyState \in {"OPEN", "CLOSING"}
  /\ Total(received, Ids) < MaxMsgs
  /\ received' = [received EXCEPT ![id] = @ + 1]
  /\ reported' = [reported EXCEPT ![id] =
                    IF client[id].isClosed THEN @ ELSE @ \cup Reported(m)]
  /\ LET h == HandleMessage(client[id], m)
         inv == Invoked(client[id], h.dispatch)
     IN /\ delivered' = [delivered EXCEPT ![id] = @ \o inv]
        /\ Listener(id, HandlerEffects(jobs, id, inv), h.client)
  /\ last' = Got(id, m)
  /\ UNCHANGED <<nextId, gen, response, s3Enabled, host, now, arg, ret>>

\* the WebSocket object emits 'error' (once); it may already be closing
WsError(id) ==
  /\ steps < MaxSteps
  /\ steps' = steps + 1
  /\ client[id].readyState \in {"CONNECTING", "OPEN", "CLOSING"}
  /\ ~client[id].sockErrored
  /\ \E rs \in {client[id].readyState, "CLOSING"} :
       Listener(id, jobs, HandleSocketError([client[id] EXCEPT !.sockErrored = TRUE,
                                                                !.readyState = rs]))
  /\ last' = NoneGot
  /\ UNCHANGED <<nextId, gen, received, delivered, reported, response, s3Enabled, host, now, arg, ret>>

\* the WebSocket object emits 'close'
WsClosed(id) ==
  /\ steps < MaxSteps
  /\ steps' = steps + 1
  /\ client[id].readyState \in {"CONNECTING", "OPEN", "CLOSING"}
  /\ Listener(id, jobs, HandleSocketClose([client[id] EXCEPT !.readyState = "CLOSED"]))
  /\ last' = NoneGot
  /\ UNCHANGED <<nextId, gen, received, delivered, reported, response, s3Enabled, host, now, arg, ret>>

\* the downloads / uploads of processOutputImages are over, each image's
\* having succeeded or thrown
ImagesProcessed(id) ==
  /\ steps < MaxSteps
  /\ steps' = steps + 1
  /\ pc[id] = "processing"
  /\ \E failed \in SUBSET (1..ImageCount(client[id].payload[1].images)) :
       LET r == FinishTask(jobs, client[id], id, s3Enabled, failed) IN
       /\ jobs' = r.jobs
       /\ client' = [client EXCEPT ![id] = r.client]
       /\ pc' = [pc EXCEPT ![id] = r.pc]
       /\ last' = Relayed(id, failed)
  /\ UNCHANGED <<nextId, gen, received, delivered, reported, response, s3Enabled, host, now, arg, ret>>

Next ==
  \/ \E r \in Requests : SubmitRest(r)
  \/ \E r \in Requests : SubmitTool(r)
  \/ \E t \in 0..MaxTime : Cleanup(t)
  \/ \E id \in Ids : StartExec(id)
  \/ \E id \in Ids : Cancel(id)
  \/ \E id \in Ids, t \in ObserverKinds : On(id, t)
  \/ \E id \in Ids : WsOpen(id)
  \/ \E id \in Ids, o \in GenOutcomes : GenDone(id, o)
  \/ \E id \in Ids : Tick(id)
  \/ \E id \in Ids, m \in Msgs : WsMessage(id, m)
  \/ \E id \in Ids : WsError(id)
  \/ \E id \in Ids : WsClosed(id)
  \/ \E id \in Ids : ImagesProcessed(id)

Spec == Init /\ [][Next]_vars

\* What the runtime and the transport deliver sooner or later: the resolution
\* of the dynamic import, the ticks of a running interval timer, the outcome
\* of a connection (open, error or close), the return of the prompt
\* submission (30 s request timeout) and the end of the image relay (request
\* timeouts).  Requests, cleanup runs and the engine's frames are not forced.
Fairness ==
  \A id \in Ids :
    /\ WF_vars(StartExec(id))
    /\ WF_vars(Tick(id))
    /\ WF_vars(WsOpen(id) \/ WsError(id) \/ WsClosed(id))
    /\ WF_vars(\E o \in GenOutcomes : GenDone(id, o))
    /\ WF_vars(ImagesProcessed(id))

SpecLive == Init /\ [][Next]_vars /\ Fairness

\* ------------------------------------- pure functions on bounded inputs
\* a pure function leaves the server alone
ServerUnchanged ==
  UNCHANGED <<jobs, nextId, pc, client, gen, received, delivered, reported, response,
              s3Enabled, host, now, last, steps>>

\* stored jobs by service and status
JobKinds == { <<"text_to_image", RUNNING>>, <<"text_to_image", COMPLETED>>,
              <<"blank", COMPLETED>> }

StoredJob(id, kind, createdAt) ==
  [CreateJob(<< >>, id, kind[1], << >>, createdAt)[id] EXCEPT !.status = kind[2]]

\* a store of n jobs, job i the i-th inserted
StoreOf(n, kinds, times) == [i \in 1..n |-> StoredJob(i, kinds[i], times[i])]

\* arg.store is any store of up to MaxStore jobs, whatever the creation times
\* (the wall clock may be set back between two inserts)
AnyStore(rest) ==
  \E n \in 0..MaxStore :
    \E kinds \in [1..n -> JobKinds], times \in [1..n -> 0..MaxTime] :
      arg = [store |-> StoreOf(n, kinds, times)] @@ rest

Optional(S) == { << >> } \cup { <<x>> : x \in S }

Filters ==
  [service : Optional({"text_to_image"}), status : Optional({COMPLETED}),
   limit : Optional(0..MaxStore), offset : Optional(0..MaxStore)]

InitList ==
  /\ Idle
  /\ s3Enabled = FALSE
  /\ host = DefaultHost
  /\ \E filters \in Filters : AnyStore([filters |-> filters])
  /\ ret = << >>

CallList ==
  /\ ret = << >>
  /\ ret' = << List(arg.store, arg.filters) >>
  /\ arg' = arg
  /\ ServerUnchanged

SpecList == InitList /\ [][CallList]_vars

InitCleanup ==
  /\ Idle
  /\ s3Enabled = FALSE
  /\ host = DefaultHost
  /\ \E cutoff \in 0..(MaxTime + 1) : AnyStore([cutoff |-> cutoff])
  /\ ret = << >>

CallCleanupOldJobs ==
  /\ ret = << >>
  /\ ret' = << CleanupOldJobs(arg.store, arg.cutoff) >>
  /\ arg' = arg
  /\ ServerUnchanged

SpecCleanup == InitCleanup /\ [][CallCleanupOldJobs]_vars

\* workflow files: up to MaxNodes nodes under distinct keys, in file order
NodeIds == {"1", "2", "3", "out", "final"}
ClassTypes == {"KSampler", "SaveImage", "SaveImageS3"}

WorkflowFiles ==
  UNION { { f \in [1..n -> [id : NodeIds, class_type : ClassTypes]] :
              \A i, j \in 1..n : f[i].id = f[j].id => i = j } :
          n \in 0..MaxNodes }

\* the array index a property key denotes, 0 when it is not an index
ArrayIndex(id) == CASE id = "1" -> 1 [] id = "2" -> 2 [] id = "3" -> 3 [] OTHER -> 0

\* JSON.parse of a workflow file, as the sequence Object.entries yields:
\* integer keys in ascending order, then the other keys in file order
RECURSIVE IndexKeysAscending(_)
IndexKeysAscending(nodes) ==
  IF nodes = << >> THEN << >>
  ELSE LET i == CHOOSE i \in 1..Len(nodes) : \A j \in 1..Len(nodes) :
                   ArrayIndex(nodes[i].id) <= ArrayIndex(nodes[j].id)
       IN <<nodes[i]>> \o
          IndexKeysAscending(SelectSeq(nodes, LAMBDA nd : nd.id # nodes[i].id))

JsonParse(file) ==
  IndexKeysAscending(SelectSeq(file, LAMBDA nd : ArrayIndex(nd.id) # 0))
    \o SelectSeq(file, LAMBDA nd : ArrayIndex(nd.id) = 0)

InitResolve ==
  /\ Idle
  /\ s3Enabled = FALSE
  /\ host = DefaultHost
  /\ arg \in [file : WorkflowFiles]
  /\ ret = << >>

\* loadWorkflow, then findSaveImageNode on the parsed object;
\* ret: <<the value returned>>, or <<"throw">> when the call threw
CallFindSaveImageNode ==
  /\ ret = << >>
  /\ ret' = LET r == FindSaveImageNode(JsonParse(arg.file))
            IN IF r = << >> THEN << "throw" >> ELSE r
  /\ arg' = arg
  /\ ServerUnchanged

SpecResolve == InitResolve /\ [][CallFindSaveImageNode]_vars

\* DELETE /jobs/:job_id on any store of up to MaxStore jobs, whatever their
\* statuses, for a stored or an unknown id
InitCancel ==
  /\ Idle
  /\ s3Enabled = FALSE
  /\ host = DefaultHost
  /\ \E n \in 0..MaxStore :
       \E statuses \in [1..n -> JobStatus], id \in 1..(n + 1) :
         arg = [store |-> [i \in 1..n |->
                             StoredJob(i, <<"text_to_image", statuses[i]>>, 0)],
                id |-> id]
  /\ ret = << >>

CallCancelJob ==
  /\ ret = << >>
  /\ ret' = << [store |-> CancelJob(arg.store, arg.id),
                response |-> CancelResponse(arg.store, arg.id)] >>
  /\ arg' = arg
  /\ ServerUnchanged

SpecCancel == InitCancel /\ [][CallCancelJob]_vars

\* ------------------------------------------ parameterizing the workflow
\* The workflow objects of the submit handlers live on a heap: arg.heap is
\* the sequence of the objects allocated so far, a reference is an index into
\* it, arg.files holds the template files and arg.jobs the stored jobs, each
\* with the reference createJob was given.  A value is written as a string;
\* "undefined" is the absent one.
PromptValues == {"cat", "dog", "owl"}
StepsValues == {"undefined", "10", "30", "50"}

\* the parameter mappings of the text_to_image service
Mappings ==
  << [name |-> "prompt", comfyuiNodeId |-> "6", comfyuiWidgetName |-> "text",
      default |-> "undefined"],
     [name |-> "steps", comfyuiNodeId |-> "3", comfyuiWidgetName |-> "steps",
      default |-> "undefined"],
     [name |-> "steps", comfyuiNodeId |-> "7", comfyuiWidgetName |-> "steps",
      default |-> "undefined"] >>

\* workflows/text_to_image.json: the inputs of its nodes
TemplateFiles ==
  [text_to_image |-> [n \in {"3", "6"} |->
                        IF n = "3" THEN [steps |-> "20"] ELSE [text |-> ""]]]

\* a loadWorkflow that parses a template once and hands out that object
LoadWorkflowObjectCached(files, heap, name) ==
  IF \E r \in 1..Len(heap) : heap[r].template = name
  THEN [heap |-> heap,
        ref |-> CHOOSE r \in 1..Len(heap) : heap[r].template = name]
  ELSE [heap |-> Append(heap, [template |-> name, nodes |-> files[name]]),
        ref |-> Len(heap) + 1]

\* loadWorkflow: readFileSync and JSON.parse build a new object on each call
LoadWorkflowObject(files, heap, name) ==
  [heap |-> Append(heap, [template |-> name, nodes |-> files[name]]),
   ref |-> Len(heap) + 1]

\* service.parameters.forEach(...): the heap after the mappings from the
\* i-th on were applied to the workflow object ref
RECURSIVE ApplyMappings(_, _, _, _, _)
ApplyMappings(heap, ref, params, body, i) ==
  IF i > Len(params) THEN heap
  ELSE LET param == params[i]
           value == IF body[param.name] # "undefined" THEN body[param.name]
                    ELSE param.default
           written ==
             IF value # "undefined" /\ param.comfyuiNodeId \in DOMAIN heap[ref].nodes
             THEN [heap EXCEPT ![ref].nodes[param.comfyuiNodeId][param.comfyuiWidgetName] = value]
             ELSE heap
       IN ApplyMappings(written, ref, params, body, i + 1)

InitParam ==
  /\ Idle
  /\ s3Enabled = FALSE
  /\ host = DefaultHost
  /\ arg = [files |-> TemplateFiles, heap |-> << >>, jobs |-> << >>]
  /\ ret = << >>

\* a submit of text_to_image up to createJob: loadWorkflow, the parameter
\* mappings, createJob(service, body, workflow)
SubmitWorkflow(body) ==
  /\ Len(arg.jobs) < MaxJobs
  /\ LET loaded == LoadWorkflowObject(arg.files, arg.heap, "text_to_image")
         heap == ApplyMappings(loaded.heap, loaded.ref, Mappings, body, 1)
     IN /\ arg' = [arg EXCEPT !.heap = heap,
                              !.jobs = Append(@, [parameters |-> body,
                                                  workflow |-> loaded.ref])]
        /\ ret' = << loaded.ref >>
  /\ ServerUnchanged

NextParam ==
  \E p \in PromptValues, s \in StepsValues : SubmitWorkflow([prompt |-> p, steps |-> s])

SpecParam == InitParam /\ [][NextParam]_vars

\* ------------------------------------------- calls on one stream client
\* A caller holding one stream client calls open, on and close on it in any
\* order, up to MaxCalls calls.  arg.client is the client, ret the outcome of
\* the call just made when it was open(): <<"pending">> for a promise that
\* awaits the stream, <<code>> for one rejected at once.  Between the calls the
\* client's connection delivers its events to the listeners open() attached;
\* arg.gen is the state of the prompt-submission call.  This caller does
\* nothing of its own when the promise settles.
InitOpen ==
  /\ Idle
  /\ s3Enabled = FALSE
  /\ host = DefaultHost
  /\ arg = [client |-> NewClient, calls |-> 0, gen |-> "none"]
  /\ ret = << >>

CallOpen(end) ==
  /\ arg.calls < MaxCalls
  /\ LET c == Open(arg.client, end) IN
     /\ arg' = [arg EXCEPT !.client = c, !.calls = @ + 1]
     /\ ret' = << IF c.promise = "rejected" THEN c.error ELSE "pending" >>
  /\ ServerUnchanged

CallOn(type) ==
  /\ arg.calls < MaxCalls
  /\ arg' = [arg EXCEPT !.client = AddListener(arg.client, type, Observer),
                        !.calls = @ + 1]
  /\ ret' = << >>
  /\ ServerUnchanged

CallClose ==
  /\ arg.calls < MaxCalls
  /\ arg' = [arg EXCEPT !.client = Close(arg.client), !.calls = @ + 1]
  /\ ret' = << >>
  /\ ServerUnchanged

\* the client's connection is established
OnOpen ==
  /\ arg.calls < MaxCalls
  /\ arg.client.readyState = "CONNECTING"
  /\ LET c == [arg.client EXCEPT !.readyState = "OPEN"] IN
       arg' = [arg EXCEPT !.client = HandleOpen(c), !.calls = @ + 1,
                          !.gen = IF c.isClosed THEN @ ELSE "inflight"]
  /\ ret' = << >>
  /\ ServerUnchanged

\* the client's prompt-submission call returns or throws
OnGenDone(outcome) ==
  /\ arg.calls < MaxCalls
  /\ arg.gen = "inflight"
  /\ arg' = [arg EXCEPT !.client = HandleGenDone(arg.client, outcome),
                        !.calls = @ + 1, !.gen = "done"]
  /\ ret' = << >>
  /\ ServerUnchanged

OnTick ==
  /\ arg.calls < MaxCalls
  /\ arg.client.timer
  /\ arg' = [arg EXCEPT !.client = HandleTick(arg.client), !.calls = @ + 1]
  /\ ret' = << >>
  /\ ServerUnchanged

OnMessage(m) ==
  /\ arg.calls < MaxCalls
  /\ arg.client.readyState \in {"OPEN", "CLOSING"}
  /\ arg' = [arg EXCEPT !.client = HandleMessage(arg.client, m).client,
                        !.calls = @ + 1]
  /\ ret' = << >>
  /\ ServerUnchanged

OnError ==
  /\ arg.calls < MaxCalls
  /\ arg.client.readyState \in {"CONNECTING", "OPEN", "CLOSING"}
  /\ ~arg.client.sockErrored
  /\ arg' = [arg EXCEPT
               !.client = HandleSocketError([arg.client EXCEPT !.sockErrored = TRUE]),
               !.calls = @ + 1]
  /\ ret' = << >>
  /\ ServerUnchanged

OnClose ==
  /\ arg.calls < MaxCalls
  /\ arg.client.readyState \in {"CONNECTING", "OPEN", "CLOSING"}
  /\ arg' = [arg EXCEPT
               !.client = HandleSocketClose([arg.client EXCEPT !.readyState = "CLOSED"]),
               !.calls = @ + 1]
  /\ ret' = << >>
  /\ ServerUnchanged

NextOpen ==
  \/ \E end \in {"5", "9"} : CallOpen(end)
  \/ \E type \in {"executed", "progress"} : CallOn(type)
  \/ CallClose
  \/ OnOpen
  \/ \E outcome \in GenOutcomes : OnGenDone(outcome)
  \/ OnTick
  \/ \E m \in Msgs : OnMessage(m)
  \/ OnError
  \/ OnClose

SpecOpen == InitOpen /\ [][NextOpen]_vars

\* ------------------------------------------------- request with retry
MAX_RETRIES == 3

\* what a request attempt can throw: a transport error code, or a response
\* with an HTTP status (status 0: no response)
ErrorCodes ==
  {"ECONNRESET", "ENOTFOUND", "ECONNREFUSED", "CERT_HAS_EXPIRED",
   "ETIMEDOUT", ""}

ErrorStatuses == {404, 500, 501}

Thrown ==
  {[code |-> c, status |-> 0] : c \in ErrorCodes}
    \cup {[code |-> "", status |-> s] : s \in ErrorStatuses}

ClassifyError(error) ==
  IF error.code = "ECONNRESET" THEN
    [type |-> "NETWORK", isRetryable |-> TRUE, originalError |-> error]
  ELSE IF error.code = "ENOTFOUND" THEN
    [type |-> "DNS", isRetryable |-> FALSE, originalError |-> error]
  ELSE IF error.code = "ECONNREFUSED" THEN
    [type |-> "CONNECTION_REFUSED", isRetryable |-> TRUE,
     originalError |-> error]
  ELSE IF error.code \in {"UNABLE_TO_VERIFY_LEAF_SIGNATURE",
                          "CERT_HAS_EXPIRED", "DEPTH_ZERO_SELF_SIGNED_CERT",
                          "SELF_SIGNED_CERT_IN_CHAIN"} THEN
    [type |-> "SSL_TLS", isRetryable |-> FALSE, originalError |-> error]
  ELSE IF error.code \in {"ECONNABORTED", "ETIMEDOUT"} THEN
    [type |-> "TIMEOUT", isRetryable |-> TRUE, originalError |-> error]
  ELSE IF error.status # 0 THEN
    [type |-> IF error.status >= 500 THEN "SERVER_ERROR" ELSE "CLIENT_ERROR",
     isRetryable |-> error.status >= 500 /\ error.status # 501,
     originalError |-> error]
  ELSE
    [type |-> "UNKNOWN", isRetryable |-> FALSE, originalError |-> error]

\* the retry configurations a caller passes: none, or a maxRetries
RetryConfigs == {<< >>} \cup {<< n >> : n \in 0..MaxRetryConfig}

RetryResults == {"r1", "r2"}

\* one call of executeWithRetry.  arg is the call's frame: maxRetries, the
\* loop counter, the number of times requestFn was invoked, lastError and the
\* position ("request": awaiting requestFn, "sleep": awaiting the backoff
\* delay, "returned", "threw"); ret is what the call returned or threw.
InitRetry ==
  /\ Idle
  /\ s3Enabled = FALSE
  /\ host = DefaultHost
  /\ \E config \in RetryConfigs :
       arg = [maxRetries |-> IF config = << >> THEN MAX_RETRIES ELSE config[1],
              attempt |-> 0, calls |-> 1, lastError |-> << >>,
              pc |-> "request"]
  /\ ret = [data |-> << >>, error |-> << >>]

RequestFnResolves(data) ==
  /\ arg.pc = "request"
  /\ arg' = [arg EXCEPT !.pc = "returned"]
  /\ ret' = [data |-> << data >>, error |-> << >>]
  /\ ServerUnchanged

RequestFnRejectsRetryAll(error) ==
  /\ arg.pc = "request"
  /\ LET lastError == ClassifyError(error) IN
       IF arg.attempt = arg.maxRetries
       THEN /\ arg' = [arg EXCEPT !.lastError = << lastError >>,
                                  !.pc = "threw"]
            /\ ret' = [data |-> << >>, error |-> << lastError >>]
       ELSE /\ arg' = [arg EXCEPT !.lastError = << lastError >>,
                                  !.pc = "sleep"]
            /\ ret' = ret
  /\ ServerUnchanged

RequestFnRejects(error) ==
  /\ arg.pc = "request"
  /\ LET lastError == ClassifyError(error) IN
       IF ~lastError.isRetryable \/ arg.attempt = arg.maxRetries
       THEN /\ arg' = [arg EXCEPT !.lastError = << lastError >>,
                                  !.pc = "threw"]
            /\ ret' = [data |-> << >>, error |-> << lastError >>]
       ELSE /\ arg' = [arg EXCEPT !.lastError = << lastError >>,
                                  !.pc = "sleep"]
            /\ ret' = ret
  /\ ServerUnchanged

\* the backoff delay elapses: attempt++, the loop test, the next requestFn()
Sleep ==
  /\ arg.pc = "sleep"
  /\ IF arg.attempt + 1 <= arg.maxRetries
     THEN /\ arg' = [arg EXCEPT !.attempt = @ + 1, !.calls = @ + 1,
                                !.pc = "request"]
          /\ ret' = ret
     ELSE /\ arg' = [arg EXCEPT !.attempt = @ + 1, !.pc = "threw"]
          /\ ret' = [data |-> << >>, error |-> arg.lastError]
  /\ ServerUnchanged

NextRetry ==
  \/ \E data \in RetryResults : RequestFnResolves(data)
  \/ \E error \in Thrown : RequestFnRejects(error)
  \/ Sleep

\* the awaited request settles (every request carries a timeout) and the
\* backoff timer fires
SpecRetry == InitRetry /\ [][NextRetry]_vars /\ WF_vars(NextRetry)

\* ================================================================ claims
\* the step handled inbound message m on job id's stream
MessageStep(id, m) == steps' # steps /\ last' = Got(id, m)

\* number of listeners a client holds for an event type
ListenerCount(c, type) == Len(SelectSeq(c.events, LAMBDA h : h[1] = type))

\* the client is open and its open() promise unsettled
AwaitingOpen(c) == c.promise = "pending" /\ ~c.isClosed

\* C1: once a job's status is COMPLETED, FAILED, TIMEOUT or CANCELLED it never
\* changes to another status, under every interleaving of submit, cancel,
\* stream events, watchdog expiry and background-task steps.
C1_TerminalAbsorbing ==
  [][\A id \in DOMAIN jobs :
       (jobs[id].status \in Terminal /\ id \in DOMAIN jobs')
         => jobs'[id].status = jobs[id].status]_vars

\* C2: for every job, at most one of result / error is present, and neither
\* is present while the status is PENDING or RUNNING.
C2_ResultErrorExclusive ==
  \A id \in DOMAIN jobs :
    /\ ~(jobs[id].result # <<>> /\ jobs[id].error # <<>>)
    /\ jobs[id].status \in {PENDING, RUNNING}
         => (jobs[id].result = <<>> /\ jobs[id].error = <<>>)

C2_Witness ==
  /\ \E id \in DOMAIN jobs : jobs[id].status = COMPLETED /\ jobs[id].result # <<>>
  /\ \E id \in DOMAIN jobs : jobs[id].status = FAILED /\ jobs[id].error # <<>>

\* C3: when the watchdog elapses for a RUNNING job, the job ends in status
\* TIMEOUT, distinct from FAILED.
C3_WatchdogGivesTimeoutStatus ==
  [][\A id \in DOMAIN jobs :
       (/\ jobs[id].status = RUNNING
        /\ client[id].promise = "pending"
        /\ client'[id].promise = "rejected"
        /\ client'[id].error = "TIMEOUT")
         => (id \in DOMAIN jobs' /\ jobs'[id].status = TIMEOUT)]_vars

\* C4: open() resolves only on an executed event whose node is the end node,
\* with that event's payload; an executed event for another node leaves the
\* promise unsettled and is delivered to every registered executed listener.
C4_ResolvesOnEndNodeOnly ==
  [][\A id \in Ids :
       /\ (client[id].promise = "pending" /\ client'[id].promise = "resolved")
            => \E m \in Msgs :
                 /\ MessageStep(id, m)
                 /\ m.type = "executed" /\ m.node = client[id].end
                 /\ client'[id].payload = <<m>>
       /\ \A m \in Msgs :
            (MessageStep(id, m) /\ m.type = "executed"
               /\ client[id].promise = "pending")
              => IF m.node = client[id].end
                 THEN client'[id].promise = "resolved" /\ client'[id].payload = <<m>>
                 ELSE /\ client'[id].promise = "pending"
                      /\ Len(delivered'[id]) =
                           Len(delivered[id]) + ListenerCount(client[id], "executed")
                      /\ \A i \in Len(delivered[id]) + 1 .. Len(delivered'[id]) :
                           /\ delivered'[id][i].type = "executed"
                           /\ delivered'[id][i].node = m.node]_vars

C4_Witness ==
  \E id \in Ids :
    /\ client[id].promise = "resolved"
    /\ client[id].payload[1].node = "9"
    /\ delivered[id] = << [handler |-> Observer, type |-> "executed", node |-> "5"] >>

\* C5: each inbound progress, execution_cached or executing event received
\* while the client is open invokes every listener registered for its kind,
\* and neither resolves nor rejects the open() promise.
C5_ForwardsProgressEvents ==
  [][\A id \in Ids : \A m \in Msgs :
       (/\ MessageStep(id, m)
        /\ m.type \in {"progress", "execution_cached", "executing"}
        /\ AwaitingOpen(client[id]))
         => /\ client'[id].promise = "pending"
            /\ Len(delivered'[id]) =
                 Len(delivered[id]) + ListenerCount(client[id], m.type)]_vars

\* C6: on an inbound execution_error or error event the client closes the
\* connection at once and rejects open() as an engine execution error.
C6_ErrorEventsReject ==
  [][\A id \in Ids : \A m \in Msgs :
       (/\ MessageStep(id, m)
        /\ m.type \in {"execution_error", "error"}
        /\ AwaitingOpen(client[id]))
         => /\ client'[id].isClosed
            /\ client'[id].promise = "rejected"
            /\ client'[id].error = "EXECUTION_ERROR"]_vars

\* C7: the outcome of open() is settled once and for all, and after the
\* settlement no listener registered through on() is invoked, whatever the
\* transport still delivers.
C7_SettledOnceThenSilent ==
  [][\A id \in Ids :
       Settled(client[id])
         => /\ client'[id].promise = client[id].promise
            /\ client'[id].error = client[id].error
            /\ client'[id].payload = client[id].payload
            /\ delivered'[id] = delivered[id]]_vars

\* a message arrived on the stream of a client whose open() had resolved
C7_Witness ==
  /\ last.id # 0
  /\ last.msg.type = "executing"
  /\ client[last.id].promise = "resolved"
  /\ received[last.id] >= 2

\* C8 as stated: if no inbound event arrives before the timeout elapses,
\* open() rejects with the TIMEOUT code and close() is invoked at most once
\* over the whole attempt.
C8_TimeoutClosesOnce ==
  \A id \in Ids :
    (client[id].elapsed >= TimeoutTicks /\ received[id] = 0)
      => /\ client[id].promise = "rejected"
         /\ client[id].error = "TIMEOUT"
         /\ client[id].closeCalls <= 1

\* C8 amended: if no inbound event arrives before the timeout elapses,
\* open() rejects with the TIMEOUT code; close() runs more than once (the
\* watchdog's, then the caller's cleanup) but the WebSocket object is closed
\* at most once.
C8_TimeoutClosesSocketOnce ==
  \A id \in Ids :
    (client[id].elapsed >= TimeoutTicks /\ received[id] = 0)
      => /\ client[id].promise = "rejected"
         /\ client[id].error = "TIMEOUT"
         /\ client[id].isClosed
         /\ client[id].sockCloses <= 1

C8_Witness ==
  \E id \in Ids :
    /\ client[id].elapsed >= TimeoutTicks /\ received[id] = 0
    /\ client[id].error = "TIMEOUT"
    /\ client[id].closeCalls = 2
    /\ client[id].sockCloses = 1

\* C9: close() is idempotent: from any client state one call leaves the
\* client closed, its watchdog cancelled, its connection torn down and its
\* listeners detached, and a further call changes nothing of that.
C9_CloseIdempotent ==
  \A id \in Ids :
    LET c1 == Close(client[id])
        c2 == Close(c1)
    IN /\ c1.isClosed /\ ~c1.timer /\ ~c1.websocket /\ c1.events = <<>>
       /\ client[id].websocket => c1.readyState \notin {"OPEN", "CONNECTING"}
       /\ c2 = [c1 EXCEPT !.closeCalls = @ + 1]

\* close() was called on an already closed client, from the rejection path
C9_Witness ==
  \E id \in Ids :
    /\ client[id].promise = "rejected"
    /\ client[id].closeCalls >= 2
    /\ client[id].readyState = "CLOSING"

\* C10: a submit of a configured service answers with the job's own id and
\* status pending as soon as the background task has been started, without
\* any stream event or task completion, also when the task has failed by then.
C10_SubmitAnswersAtOnce ==
  \A id \in Ids :
    /\ pc[id] \in {"open", "processing", "done", "threw"}
         => response[id] = << [job_id |-> id, status |-> "pending"] >>
    /\ response[id] # <<>>
         => /\ id \in 1..nextId
            /\ id \in DOMAIN jobs => jobs[id].jobId = response[id][1].job_id
            /\ \A o \in Ids \ {id} :
                 response[o] # <<>> => response[o][1].job_id # response[id][1].job_id

\* the response is out, no stream message was received, the task has failed
C10_Witness ==
  \E id \in Ids :
    /\ response[id] # <<>>
    /\ received[id] = 0
    /\ client[id].readyState = "NONE"
    /\ id \in DOMAIN jobs /\ jobs[id].status = FAILED

\* the step handled submit request r
SubmitStep(r) == steps' # steps /\ last'.req = r

\* the step created no job and started no background task
NothingStarted ==
  /\ last'.id = 0
  /\ jobs' = jobs /\ nextId' = nextId
  /\ pc' = pc /\ client' = client /\ response' = response

\* C11: a submit naming a service that is not in the configuration is
\* answered with an error by the submit call itself and creates no job: the
\* stored jobs, and the number listJobs returns, are unchanged.
C11_UnknownServiceRejected ==
  [][\A r \in Requests :
       (/\ SubmitStep(r)
        /\ \A i \in 1..Len(Services) : Services[i].name # r.name)
         => /\ last'.answer = "404"
            /\ NothingStarted
            /\ Len(List(jobs', NoFilters)) = Len(List(jobs, NoFilters))]_vars

\* an unknown service was refused while the store held a job
C11_Witness ==
  /\ last.answer = "404"
  /\ last.req.name = "no_such_service"
  /\ DOMAIN jobs # {}

\* the values that count as missing or empty, and the kinds of each type
EmptyValues == {"undefined", "null", "empty_string", "blank_string",
                "empty_array", "empty_object"}
OfType(type) ==
  CASE type = "string" -> {"string"}
    [] type = "number" -> {"number"}
    [] type = "boolean" -> {"boolean"}
    [] type = "array" -> {"array"}
    [] type = "object" -> {"object"}

\* a required parameter is missing or empty, or a non-empty value has a type
\* other than the declared one
FailsValidation(service, body) ==
  \E i \in 1..Len(service.parameters) :
    LET param == service.parameters[i] IN
    \/ param.required /\ body[param.name] \in EmptyValues
    \/ /\ body[param.name] \notin EmptyValues \cup {"NaN"}
       /\ body[param.name] \notin OfType(param.type)

\* C12: a submit whose parameters fail validation is refused to the caller in
\* the same step, and no job is created and no background task is started.
C12_InvalidParametersRejected ==
  [][\A r \in Requests : \A i \in 1..Len(Services) :
       (/\ SubmitStep(r)
        /\ Services[i].name = r.name
        /\ FailsValidation(Services[i], r.body))
         => /\ last'.answer \in {"400", "throw"}
            /\ NothingStarted]_vars

\* an invalid request was refused while the store held a job: a required
\* parameter missing, or blank (through a service tool), or a value of the
\* wrong type
C12_Witness ==
  /\ last.answer \in {"400", "throw"}
  /\ DOMAIN jobs # {}
  /\ \/ last.req.body.prompt = "undefined"
     \/ last.req.body.prompt = "blank_string" /\ last.answer = "throw"
     \/ last.req.body.steps = "string"

\* C13: updateStatus, updateProgress, setResult and setError called with a
\* job id that is not in the store leave the whole store unchanged: so it is
\* for every such call on the current store, and for every step a background
\* task takes after its job was deleted.
C13_UnknownJobUpdatesNoOp ==
  [][\A id \in Ids \ DOMAIN jobs :
       /\ \A st \in JobStatus : \A up \in {StartedAt, CompletedAt} :
            UpdateJobStatus(jobs, id, st, up) = jobs
       /\ UpdateJobProgress(jobs, id, [current |-> 1, maximum |-> 2, node |-> "5"]) = jobs
       /\ SetJobResult(jobs, id, [node |-> "9", images |-> << >>, outputs |-> << >>]) = jobs
       /\ SetJobError(jobs, id, JobError("TIMEOUT")) = jobs
       /\ (id <= nextId /\ (pc'[id] # pc[id] \/ client'[id] # client[id]))
            => jobs' = jobs]_vars

\* a task failed after its job was deleted, while the store held another job
C13_Witness ==
  \E id \in 1..nextId :
    /\ id \notin DOMAIN jobs
    /\ pc[id] = "done" /\ client[id].promise = "rejected"
    /\ DOMAIN jobs # {}

\* C14: once the cleanup sweep has deleted a job whose background task is in
\* flight, every later step of that task (event, completion, failure,
\* timeout) ends inside the task, and the job is never stored again.
C14_DeletedJobStaysDeleted ==
  [][\A id \in 1..nextId :
       id \notin DOMAIN jobs
         => /\ id \notin DOMAIN jobs'
            /\ pc[id] \in {"open", "processing"}
                 => pc'[id] \in {"open", "processing", "done"}]_vars

\* a task completed after its job was deleted, another timed out
C14_Witness ==
  \E id \in 1..nextId :
    /\ id \notin DOMAIN jobs
    /\ pc[id] = "done"
    /\ \/ client[id].promise = "resolved"
       \/ client[id].error = "TIMEOUT"

\* C15: cleanupOldJobs(cutoff) removes exactly the jobs with createdAt < cutoff,
\* returns the number removed, and leaves every job with createdAt >= cutoff
\* present and unmodified, whatever the jobs' statuses.
C15_CleanupRemovesExactlyOlder ==
  ret # << >> =>
    LET before == arg.store
        after == ret[1].store
        old == {id \in DOMAIN before : before[id].createdAt < arg.cutoff}
    IN /\ DOMAIN after = DOMAIN before \ old
       /\ \A id \in DOMAIN after : after[id] = before[id]
       /\ ret[1].count = Cardinality(old)

\* a sweep removed a running job and kept a job created exactly at the cutoff
C15_Witness ==
  /\ ret # << >>
  /\ ret[1].count >= 1
  /\ \E id \in DOMAIN arg.store \ DOMAIN ret[1].store : arg.store[id].status = RUNNING
  /\ \E id \in DOMAIN ret[1].store : ret[1].store[id].createdAt = arg.cutoff

\* the jobs a filter selects, and the sequences listing each of them once,
\* newest first
Matching(store, filters) ==
  {id \in DOMAIN store :
     /\ filters.service # << >> => store[id].service = filters.service[1]
     /\ filters.status # << >> => store[id].status = filters.status[1]}

NewestFirst(store, ids) ==
  { p \in [1..Cardinality(ids) -> ids] :
      /\ \A i, j \in DOMAIN p : p[i] = p[j] => i = j
      /\ \A i, j \in DOMAIN p : i < j => store[p[i]].createdAt >= store[p[j]].createdAt }

\* C16: for every store content and every filter {service?, status?, limit N,
\* offset M} with N >= 0 and M >= 0, listJobs returns the jobs matching the
\* service and status filters, sorted by createdAt descending, with the first
\* M dropped and at most N kept.
C16_ListSortedSlice ==
  ret # << >> =>
    LET store == arg.store
        ids == Matching(store, arg.filters)
        M == IF arg.filters.offset = << >> THEN 0 ELSE arg.filters.offset[1]
        rest == Max(Cardinality(ids) - M, 0)
        N == IF arg.filters.limit = << >> THEN rest ELSE arg.filters.limit[1]
    IN \E p \in NewestFirst(store, ids) :
         ret[1] = [i \in 1..Min(N, rest) |-> store[p[M + i]]]

\* C17: when the service configuration declares one or more outputs, the end
\* node of the job's stream client is the nodeId of the last declared
\* output, whatever the node types of the workflow graph.
C17_EndNodeFromOutputs ==
  \A id \in DOMAIN jobs : \A i \in 1..Len(Services) :
    (/\ Services[i].name = jobs[id].service
     /\ Services[i].outputs # << >>
     /\ pc[id] = "open")
      => client[id].end = Services[i].outputs[Len(Services[i].outputs)].nodeId

\* key order of a parsed workflow: node a of the file comes before node b
\* when both keys are integers and a's is smaller, or only a's is an integer,
\* or neither is and a stands earlier in the file
KeyBefore(file, a, b) ==
  LET ia == ArrayIndex(file[a].id)
      ib == ArrayIndex(file[b].id)
  IN \/ ia > 0 /\ ib > 0 /\ ia < ib
     \/ ia > 0 /\ ib = 0
     \/ ia = 0 /\ ib = 0 /\ a < b

SaveTypes == {"SaveImage", "SaveImageS3"}

C19_FirstSavePrefixed ==
  ret # << >> =>
    \A a \in DOMAIN arg.file :
      (/\ \A b \in DOMAIN arg.file : arg.file[b].class_type # "SaveImage"
       /\ arg.file[a].class_type \in SaveTypes
       /\ \A b \in DOMAIN arg.file :
            arg.file[b].class_type \in SaveTypes => ~KeyBefore(arg.file, b, a))
        => ret = << arg.file[a].id >>

\* C20: with no output configuration and no Save-type node, the end-node
\* resolver returns the last node in the graph's key order.
C20_LastNodeFallback ==
  ret # << >> =>
    \A a \in DOMAIN arg.file :
      (/\ \A b \in DOMAIN arg.file : arg.file[b].class_type \notin SaveTypes
       /\ \A b \in DOMAIN arg.file : ~KeyBefore(arg.file, a, b))
        => ret = << arg.file[a].id >>

\* the fallback returned a node that is not the last of the file
C20_Witness ==
  /\ ret # << >>
  /\ Len(arg.file) >= 2
  /\ \A b \in DOMAIN arg.file : arg.file[b].class_type \notin SaveTypes
  /\ \E a \in 1..(Len(arg.file) - 1) : ret = << arg.file[a].id >>

\* the step ends job id's background task
TaskEnds(id) == pc[id] \notin {"done", "threw"} /\ pc'[id] \in {"done", "threw"}

\* C21: an error raised at any step of the background task (from the RUNNING
\* transition and the construction of the stream client to the processing of
\* the outputs) is caught at the task's boundary: a task that ends without a
\* result leaves its job, if still stored, FAILED with an error recorded,
\* never RUNNING, and no error escapes the task once the job is RUNNING.
C21_TaskErrorsCaught ==
  [][\A id \in Ids :
       (TaskEnds(id) /\ id \in DOMAIN jobs' /\ jobs'[id].result = <<>>)
         => /\ pc'[id] = "done"
            /\ jobs'[id].status = FAILED
            /\ jobs'[id].error # <<>>]_vars

\* error codes of the prompt submission, and of the stream, the engine and
\* the watchdog
SubmissionCodes == GenOutcomes \ {"ok"}
StreamCodes == {"WEBSOCKET_ERROR", "UNEXPECTED_CLOSE", "EXECUTION_ERROR",
                "INVALID_EXECUTED_DATA", "TIMEOUT"}

\* C22 (as stated): whenever the prompt-submission call fails (non-success
\* status, or a response without an execution identifier), the job becomes
\* FAILED and its recorded error carries a code of the submission stage, not
\* a transport, engine-error or timeout code.
C22_SubmissionFailureFailsJob ==
  [][\A id \in Ids, o \in SubmissionCodes :
       last' = Returned(id, o)
         => /\ id \in DOMAIN jobs'
            /\ jobs'[id].status = FAILED
            /\ jobs'[id].error = <<JobError(o)>>
            /\ o \notin StreamCodes]_vars

\* C22 (amended): the same, for a submission that fails while the attempt
\* still awaits its outcome and the job is still stored.
C22_PendingSubmissionFailureFailsJob ==
  [][\A id \in Ids, o \in SubmissionCodes :
       (last' = Returned(id, o) /\ client[id].promise = "pending"
          /\ id \in DOMAIN jobs)
         => /\ id \in DOMAIN jobs'
            /\ jobs'[id].status = FAILED
            /\ jobs'[id].error = <<JobError(o)>>
            /\ o \notin StreamCodes
            /\ pc'[id] = "done"]_vars

C22_Witness ==
  \E id \in DOMAIN jobs, o \in SubmissionCodes :
    /\ last = Returned(id, o)
    /\ client[id].promise = "rejected" /\ client[id].error = o
    /\ jobs[id].status = FAILED
    /\ jobs[id].error = <<JobError(o)>>

C24_RelayFailureStillCompletes ==
  [][\A id \in Ids :
       (last'.answer = "relayed" /\ last'.id = id /\ id \in DOMAIN jobs')
         => /\ s3Enabled
            /\ jobs'[id].status = COMPLETED
            /\ jobs'[id].error = <<>>
            /\ jobs'[id].result # <<>>
            /\ LET images == jobs'[id].result[1].images
                   n == ImageCount(client[id].payload[1].images)
               IN /\ Len(images) = n
                  /\ \A i \in 1..n :
                       /\ images[i].filename = Image(client[id].end, i)
                       /\ images[i].url = "view"
                       /\ images[i].s3Url = <<>> <=> i \in last'.failed]_vars

\* C25: the result of a COMPLETED job lists every image that an executed
\* event of its execution attempt reported, whichever node reported it, not
\* only the images of the end node's event.
C25_ResultListsEveryReportedImage ==
  \A id \in DOMAIN jobs :
    (jobs[id].status = COMPLETED /\ jobs[id].result # <<>>)
      => \A image \in reported[id] :
           \E i \in 1..Len(jobs[id].result[1].images) :
             jobs[id].result[1].images[i].filename = image

\* C26: for a service that declares outputs, the result of a COMPLETED job
\* holds in result.outputs one entry for each declared output whose source
\* node is the node of the raw payload the attempt resolved with.
C26_DeclaredOutputsInResult ==
  \A id \in DOMAIN jobs : \A i \in 1..Len(Services) :
    (/\ Services[i].name = jobs[id].service
     /\ jobs[id].status = COMPLETED
     /\ jobs[id].result # <<>>)
      => \A k \in 1..Len(Services[i].outputs) :
           (/\ Services[i].outputs[k].nodeId = jobs[id].result[1].node
            /\ jobs[id].result[1].images # <<>>)
             => \E j \in 1..Len(jobs[id].result[1].outputs) :
                  jobs[id].result[1].outputs[j].name = Services[i].outputs[k].name

\* C27: whenever a progress event arrives on the open stream of a RUNNING
\* job, the job's progress field is replaced by a snapshot of that event, so
\* that the job is then RUNNING with a non-absent progress naming the event's
\* node.
C27_ProgressEventSetsProgress ==
  [][\A id \in DOMAIN jobs, m \in Msgs :
       (/\ MessageStep(id, m)
        /\ m.type = "progress"
        /\ jobs[id].status = RUNNING
        /\ AwaitingOpen(client[id]))
         => /\ id \in DOMAIN jobs'
            /\ jobs'[id].status = RUNNING
            /\ jobs'[id].progress # <<>>
            /\ jobs'[id].progress[1].node = m.node]_vars

\* C28: after createJob stored a job as PENDING, no operation or event sets
\* its status to PENDING again: a stored job that has left PENDING is never
\* PENDING afterwards.
C28_NeverBackToPending ==
  [][\A id \in DOMAIN jobs :
       (jobs[id].status # PENDING /\ id \in DOMAIN jobs')
         => jobs'[id].status # PENDING]_vars

\* a job left PENDING for RUNNING and its task ran to a failure
C28_Witness ==
  \E id \in DOMAIN jobs :
    /\ pc[id] = "done"
    /\ jobs[id].status = FAILED
    /\ jobs[id].startedAt # <<>>
    /\ client[id].promise = "rejected"

\* C29: in every reachable state a job's result is present only if its
\* status is COMPLETED and its error is present only if its status is FAILED
\* or TIMEOUT, also for a job that was cancelled while its background task
\* was still running.
C29_ResultOnlyCompletedErrorOnlyFailed ==
  \A id \in DOMAIN jobs :
    /\ jobs[id].result # <<>> => jobs[id].status = COMPLETED
    /\ jobs[id].error # <<>> => jobs[id].status \in {FAILED, TIMEOUT}

\* a job was cancelled while its task, holding the end node's payload, was
\* relaying the images
C29_Witness ==
  \E id \in DOMAIN jobs :
    /\ pc[id] = "processing"
    /\ client[id].promise = "resolved"
    /\ jobs[id].status = CANCELLED
    /\ jobs[id].result = <<>>
    /\ jobs[id].error = <<>>

\* C30: in every reachable state startedAt is absent while the job is
\* PENDING, and completedAt is absent while the job is PENDING or RUNNING.
C30_TimestampsFollowStatus ==
  \A id \in DOMAIN jobs :
    /\ jobs[id].status = PENDING => jobs[id].startedAt = <<>>
    /\ jobs[id].status \in {PENDING, RUNNING} => jobs[id].completedAt = <<>>

\* what a submit with this body sends to the engine: the template with the
\* body's own values in the mapped inputs
Parameterized(body) ==
  [n \in {"3", "6"} |->
     IF n = "6" THEN [text |-> body.prompt]
     ELSE [steps |-> IF body.steps = "undefined" THEN "20" ELSE body.steps]]

\* C31: each submit parameterizes its own copy of the workflow template:
\* after any sequence of submits of a service, every job's workflow is the
\* template with that job's own parameter values (none of another job's),
\* no two jobs share a workflow object and the stored template is unchanged.
C31_OwnWorkflowCopy ==
  /\ arg.files = TemplateFiles
  /\ \A i \in 1..Len(arg.jobs) :
       /\ arg.heap[arg.jobs[i].workflow].nodes = Parameterized(arg.jobs[i].parameters)
       /\ \A j \in 1..Len(arg.jobs) :
            arg.jobs[j].workflow = arg.jobs[i].workflow => i = j

\* two submits with different prompts and steps, each job holding its own
C31_Witness ==
  /\ Len(arg.jobs) = 2
  /\ arg.jobs[1].parameters = [prompt |-> "cat", steps |-> "10"]
  /\ arg.jobs[2].parameters = [prompt |-> "dog", steps |-> "undefined"]
  /\ arg.heap[arg.jobs[1].workflow].nodes["6"].text = "cat"
  /\ arg.heap[arg.jobs[2].workflow].nodes["6"].text = "dog"
  /\ arg.heap[arg.jobs[2].workflow].nodes["3"].steps = "20"

\* the step handled an event of job id's stream client (a frame, a transport
\* event, a watchdog tick, the return of its prompt submission) or a step of
\* its task
StreamStep(id) == client'[id] # client[id] \/ received'[id] # received[id]

\* C32: an event arriving on one job's stream changes only that job's
\* record: every other stored job, RUNNING or not, keeps its record, and its
\* stream client is untouched.
C32_StreamEventsTouchOwnJobOnly ==
  [][\A id \in Ids, other \in DOMAIN jobs :
       (StreamStep(id) /\ other # id)
         => /\ other \in DOMAIN jobs'
            /\ jobs'[other] = jobs[other]
            /\ client'[other] = client[other]
            /\ pc'[other] = pc[other]]_vars

\* two jobs were RUNNING; the end node's event on the stream of one completed
\* it, the other is still RUNNING on its open stream
C32_Witness ==
  \E id, other \in DOMAIN jobs :
    /\ other # id
    /\ last.id = id /\ last.msg.type = "executed"
    /\ jobs[id].status = COMPLETED
    /\ jobs[other].status = RUNNING
    /\ pc[other] = "open"
    /\ client[other].readyState = "OPEN"

\* C33: whenever open() resolved for a job (the end node's executed event was
\* observed), the job's final status is COMPLETED with a result attached,
\* whatever the shape of the event's output, also when the output carries no
\* images list.
C33_ResolvedMeansCompleted ==
  \A id \in DOMAIN jobs :
    (pc[id] = "done" /\ client[id].promise = "resolved")
      => /\ jobs[id].status = COMPLETED
         /\ jobs[id].result # <<>>

\* C34: under fair delivery of watchdog ticks and transport events, every
\* job that becomes RUNNING eventually has a status other than PENDING and
\* RUNNING (or is deleted), within the length of a run.
C34_RunningJobsEnd ==
  \A id \in Ids :
    (id \in DOMAIN jobs /\ jobs[id].status = RUNNING)
      ~> \/ id \notin DOMAIN jobs
         \/ jobs[id].status \notin {PENDING, RUNNING}
         \/ steps = MaxSteps

\* C35: open() on a stream client after close() was called on it fails with
\* the code ALREADY_CLOSED, opens no connection and starts no watchdog.
C35_OpenAfterCloseRejected ==
  [][(arg.client.isClosed /\ ret' # << >>)
       => /\ ret' = << "ALREADY_CLOSED" >>
          /\ arg'.client.promise = "rejected"
          /\ arg'.client.isClosed
          /\ ~arg'.client.websocket
          /\ arg'.client.readyState = arg.client.readyState
          /\ arg'.client.sockCloses = arg.client.sockCloses
          /\ ~arg'.client.timer]_vars

\* a client that was opened, then closed, then opened again
C35_Witness ==
  /\ ret = << "ALREADY_CLOSED" >>
  /\ arg.client.isClosed
  /\ arg.client.closeCalls = 1
  /\ arg.client.sockCloses = 1
  /\ arg.client.readyState = "CLOSING"

\* C36: with the blob-store relay enabled, an image whose download and
\* blob-store put both succeed is listed in result.images with the blob-store
\* URL in addition to its direct URL.
C36_RelayedImageHasBlobUrl ==
  [][\A id \in Ids :
       (last'.answer = "relayed" /\ last'.id = id /\ id \in DOMAIN jobs')
         => \A i \in 1..Len(jobs'[id].result[1].images) :
              i \notin last'.failed
                => /\ jobs'[id].result[1].images[i].url = "view"
                   /\ jobs'[id].result[1].images[i].s3Url # <<>>]_vars

\* C37: executeWithRetry invokes the request at most maxRetries + 1 times; it
\* returns the first successful result, rethrows at once the first error
\* classified non-retryable, rethrows the last classified error after
\* maxRetries + 1 retryable failures, and always terminates.
C37_RetryBounded ==
  /\ [](arg.calls <= arg.maxRetries + 1)
  /\ [][/\ \A data \in RetryResults :
             RequestFnResolves(data)
               => arg'.pc = "returned" /\ ret'.data = << data >>
        /\ \A error \in Thrown :
             (/\ arg.pc = "request"
              /\ arg'.pc \in {"sleep", "threw"}
              /\ arg'.lastError = << ClassifyError(error) >>)
               => /\ ~ClassifyError(error).isRetryable
                     => /\ arg'.pc = "threw"
                        /\ arg'.calls = arg.calls
                        /\ ret'.error = << ClassifyError(error) >>
                  /\ (ClassifyError(error).isRetryable
                        /\ arg.calls = arg.maxRetries + 1)
                     => /\ arg'.pc = "threw"
                        /\ ret'.error = << ClassifyError(error) >>
        /\ arg.pc \in {"returned", "threw"} => arg' = arg /\ ret' = ret]_vars
  /\ <>(arg.pc \in {"returned", "threw"})

\* the request failed with a retryable error on each of the three attempts
\* that maxRetries = 2 allows, and the last error was rethrown
C37_Witness ==
  /\ arg.pc = "threw"
  /\ arg.maxRetries = 2
  /\ arg.calls = 3
  /\ ret.error # << >>
  /\ ret.error[1].isRetryable

\* C38: at the instant a submit returns its response reporting the status
\* PENDING, the stored job has the status PENDING: a getJob at that moment
\* reports the status of the response.
C38_ResponseStatusIsStoredStatus ==
  [][\A id \in Ids :
       (response[id] = << >> /\ response'[id] # << >>)
         => /\ id \in DOMAIN jobs'
            /\ jobs'[id].status = response'[id][1].status]_vars

\* C39: whenever the promise returned by a stream client's open() has
\* settled, on every settlement path, the client itself is closed: its closed
\* flag is set, its watchdog cancelled and its connection torn down, without
\* a close() by the caller.
C39_SettledMeansClosed ==
  Settled(arg.client)
    => /\ arg.client.isClosed
       /\ ~arg.client.timer
       /\ ~arg.client.websocket

\* C40: in every reachable state a job whose status is COMPLETED has a result
\* attached and a job whose status is FAILED has an error attached.
C40_TerminalPayloadPresent ==
  \A id \in DOMAIN jobs :
    /\ jobs[id].status = COMPLETED => jobs[id].result # << >>
    /\ jobs[id].status = FAILED => jobs[id].error # << >>

\* one job ended COMPLETED and another ended FAILED
C40_Witness ==
  \E i, j \in DOMAIN jobs :
    /\ jobs[i].status = COMPLETED /\ jobs[i].result # << >>
    /\ jobs[j].status = FAILED /\ jobs[j].error # << >>
    /\ pc[i] = "done" /\ pc[j] = "done"

====
